---- MODULE Spec2Model ----
\* Model of rain_notifier.py: fetch_rain_forecast -> threshold filter ->
\* create_webhook_payload -> send_discord_notification, driven by main().
\*
\* Conventions
\*   - precipitation amounts and RAIN_THRESHOLD are in tenths of a millimetre
\*     (6 stands for the float 0.6, 0 for 0.0);
\*   - a JSON value of a precipitation array is a record: JNum(v) or JNull;
\*   - TLA+ strings are ASCII, so the Japanese literals of the source are
\*     written in romaji; the comment next to each gives the source literal;
\*   - a text built by string concatenation is the sequence of the chunks
\*     that were concatenated (the text is empty iff the sequence is empty).
EXTENDS Integers, Sequences, FiniteSets, TLC

VARIABLES
    entry,                \* the function invoked by this run
    pc,                   \* position of the run
    RAIN_THRESHOLD,       \* module configuration (line 29)
    DISCORD_WEBHOOK_URL,  \* module configuration (line 35)
    get,                  \* outcome of requests.get (line 70)
    forecasts,            \* result of fetch_rain_forecast / local of check_and_notify
    rain_forecasts,       \* local of check_and_notify (line 223)
    webhook_url,          \* argument of send_discord_notification
    send_forecasts,       \* argument of send_discord_notification / create_webhook_payload
    payload,              \* result of create_webhook_payload
    post,                 \* outcome of requests.post (line 198)
    sendCalled,           \* send_discord_notification has been called
    sent,                 \* value returned by send_discord_notification
    ret,                  \* value returned by check_and_notify
    exc,                  \* exception that escaped the invoked function
    calls,                \* calls of requests.get / requests.post so far, in order
    net,                  \* HTTP requests put on the wire so far, in order
    code,                 \* argument of get_weather_description
    desc,                 \* result of get_weather_description
    exit_code             \* process exit status of main()

vars == <<entry, pc, RAIN_THRESHOLD, DISCORD_WEBHOOK_URL, get, forecasts,
          rain_forecasts, webhook_url, send_forecasts, payload, post,
          sendCalled, sent, ret, exc, calls, net, code, desc, exit_code>>

----------------------------------------------------------------------------
\* Bounds of the model.

MaxTimes == 2       \* longest "time" array of a response
MaxPrecips == 2     \* longest "precipitation" array of a response
MaxCodes == 2       \* longest "weather_code" array of a response
MaxForecasts == 2   \* longest list handed directly to the notifier / formatter
MaxCode == 100      \* largest weather code handed to get_weather_description
MaxRedirects == 2   \* longest redirect chain that ends in a final answer

SeqsUpTo(S, n) == UNION {[1..k -> S] : k \in 0..n}

----------------------------------------------------------------------------
\* JSON values and the RainForecast dataclass.

JNum(v) == [type |-> "number", value |-> v]
JNull == [type |-> "null", value |-> 0]

RainForecastOf(t, p, c) == [time |-> t, precipitation |-> p, weather_code |-> c]

\* datetime.fromisoformat on the time strings the model feeds it; a string
\* outside the table raises ValueError.
IsoTable ==
    ("2024-01-01T10:00" :> [hour |-> 10, minute |-> 0]) @@
    ("2024-01-01T09:05" :> [hour |-> 9, minute |-> 5])

IsIsoFormat(time_str) == time_str \in DOMAIN IsoTable
FromIsoFormat(time_str) == IsoTable[time_str]

TimeStrings == DOMAIN IsoTable \cup {"soon"}
PrecipValues == {JNum(5), JNum(6), JNull}
CodeValues == {61, 7}
Thresholds == {5, 6}
WebhookUrls == {"", "https://discord.com/api/webhooks/1/x"}

----------------------------------------------------------------------------
\* HTTP outcomes.

NoBody == [kind |-> "none", time |-> <<>>, precipitation |-> <<>>, weather_code |-> <<>>]
NotJson == [kind |-> "notjson", time |-> <<>>, precipitation |-> <<>>, weather_code |-> <<>>]
NoHourly == [kind |-> "nohourly", time |-> <<>>, precipitation |-> <<>>, weather_code |-> <<>>]
NullHourly == [kind |-> "nullhourly", time |-> <<>>, precipitation |-> <<>>, weather_code |-> <<>>]
Hourly(t, p, c) == [kind |-> "hourly", time |-> t, precipitation |-> p, weather_code |-> c]

HourlyBodies ==
    {Hourly(t, p, c) : t \in SeqsUpTo(TimeStrings, MaxTimes),
                       p \in SeqsUpTo(PrecipValues, MaxPrecips),
                       c \in SeqsUpTo(CodeValues, MaxCodes)}

\* Scenario bodies used with the statuses other than 200 and after redirects.
OnePointBody == Hourly(<<"2024-01-01T10:00">>, <<JNum(6)>>, <<61>>)
SampleBodies == {NotJson, OnePointBody}

\* The outcome of one call of requests.get / requests.post. Neither call
\* passes allow_redirects=False, so the library follows every redirect that
\* carries a Location header, one HTTP request per hop: redirects holds the
\* statuses of the redirects that were followed, and kind, error, status and
\* body describe how the last request ended.
NoCall == [kind |-> "none", error |-> "", status |-> 0, body |-> NoBody,
           redirects |-> <<>>]
Failure(e) == [kind |-> "error", error |-> e, status |-> 0, body |-> NoBody,
               redirects |-> <<>>]
Response(s, b) == [kind |-> "response", error |-> "", status |-> s, body |-> b,
                   redirects |-> <<>>]
After(chain, o) == [o EXCEPT !.redirects = chain]

TransportErrors == {"ConnectionError", "Timeout"}

\* requests' redirect limit (Session.max_redirects): after this many followed
\* redirects one more redirect raises TooManyRedirects, a RequestException.
DefaultRedirectLimit == 30

RedirectStatuses == {302, 307}
RedirectChains == SeqsUpTo(RedirectStatuses, MaxRedirects) \ {<<>>}
TooManyRedirects(s) ==
    After([i \in 1..DefaultRedirectLimit |-> s], Failure("TooManyRedirects"))

\* A 304 answer carries no body (json() raises on it); a 300 answer, like a
\* 302 without Location, is returned as it is and may carry one.
GetOutcomes ==
    {Failure(e) : e \in TransportErrors}
    \cup {Response(200, b) : b \in HourlyBodies \cup {NotJson, NoHourly, NullHourly}}
    \cup {Response(s, b) : s \in {300, 404, 500}, b \in SampleBodies}
    \cup {Response(304, NotJson)}
    \cup {After(c, o) : c \in RedirectChains,
                        o \in {Response(200, OnePointBody), Response(404, NotJson),
                               Failure("Timeout")}}
    \cup {TooManyRedirects(s) : s \in RedirectStatuses}

PostOutcomes ==
    {Failure(e) : e \in TransportErrors}
    \cup {Response(s, NoBody) : s \in {101, 200, 204, 304, 404, 500}}
    \cup {After(c, o) : c \in RedirectChains,
                        o \in {Response(204, NoBody), Response(500, NoBody),
                               Failure("Timeout")}}
    \cup {TooManyRedirects(s) : s \in RedirectStatuses}

\* The method of the next hop (requests' rebuild_method): a 301, 302 or 303
\* turns a POST into a GET, a 307 or 308 keeps the method.
RebuildMethod(method, status) ==
    IF status \in {301, 302, 303} THEN "GET" ELSE method

\* The methods of the requests one call puts on the wire: the first request
\* and one more per followed redirect chain[i..].
RECURSIVE MethodsFrom(_, _, _)
MethodsFrom(method, chain, i) ==
    IF i > Len(chain) THEN <<method>>
    ELSE <<method>> \o MethodsFrom(RebuildMethod(method, chain[i]), chain, i + 1)

\* The requests of one library call, each tagged with the call it belongs to.
WireRequests(call, method, o) ==
    LET m == MethodsFrom(method, o.redirects, 1)
    IN  [i \in 1..Len(m) |-> [call |-> call, method |-> m[i]]]

\* Response.raise_for_status: HTTPError for a 4xx or 5xx status, nothing else.
RaisesForStatus(status) == 400 <= status /\ status < 600

----------------------------------------------------------------------------
\* fetch_rain_forecast.

Returned(v) == [exc |-> "none", result |-> v]
Raised(e) == [exc |-> e, result |-> <<>>]

\* Mutant: a missing precipitation becomes None instead of 0.0.
PrecipAtNone(precipitations, i) ==
    IF i <= Len(precipitations) THEN precipitations[i] ELSE JNull

\* Line 82.
PrecipAt(precipitations, i) ==
    IF i <= Len(precipitations) THEN precipitations[i] ELSE JNum(0)

\* Line 83.
CodeAt(weather_codes, i) ==
    IF i <= Len(weather_codes) THEN weather_codes[i] ELSE 0

\* The for loop of lines 80-89, from index i on, with the list built so far.
RECURSIVE ParseFrom(_, _, _, _, _)
ParseFrom(i, times, precipitations, weather_codes, acc) ==
    IF i > Len(times) THEN Returned(acc)
    ELSE IF ~IsIsoFormat(times[i]) THEN Raised("ValueError")
    ELSE ParseFrom(i + 1, times, precipitations, weather_codes,
                   Append(acc, RainForecastOf(FromIsoFormat(times[i]),
                                              PrecipAt(precipitations, i),
                                              CodeAt(weather_codes, i))))

\* Lines 69-95. requests.get raising, raise_for_status raising and
\* response.json() raising (requests' JSONDecodeError) are all
\* RequestException and end in "return []"; the AttributeError of None.get
\* and the ValueError of fromisoformat are not caught.
FetchRainForecast(o) ==
    IF o.kind = "error" THEN Returned(<<>>)
    ELSE IF RaisesForStatus(o.status) THEN Returned(<<>>)
    ELSE IF o.body.kind = "notjson" THEN Returned(<<>>)
    ELSE IF o.body.kind = "nullhourly" THEN Raised("AttributeError")
    ELSE ParseFrom(1, o.body.time, o.body.precipitation, o.body.weather_code, <<>>)

----------------------------------------------------------------------------
\* get_weather_description. Labels in romaji; source literals:
\*   kaisei 快晴, hare 晴れ, ichibu kumori 一部曇り, kumori 曇り, kiri 霧,
\*   muhyou 霧氷, kosame 小雨, ame 雨, ooame 大雨, uhyou 雨氷, koyuki 小雪,
\*   yuki 雪, ooyuki 大雪, kiriyuki 霧雪, niwaka ame にわか雨,
\*   hageshii niwaka ame 激しいにわか雨, niwaka yuki にわか雪,
\*   hageshii niwaka yuki 激しいにわか雪, raiu 雷雨, raiu to hyou 雷雨と雹,
\*   hageshii raiu to hyou 激しい雷雨と雹, fumei 不明.

weather_codes ==
    (0 :> "kaisei") @@ (1 :> "hare") @@ (2 :> "ichibu kumori") @@
    (3 :> "kumori") @@ (45 :> "kiri") @@ (48 :> "muhyou") @@
    (51 :> "kosame") @@ (53 :> "kosame") @@ (55 :> "kosame") @@
    (61 :> "kosame") @@ (63 :> "ame") @@ (65 :> "ooame") @@
    (66 :> "uhyou") @@ (67 :> "uhyou") @@ (71 :> "koyuki") @@
    (73 :> "yuki") @@ (75 :> "ooyuki") @@ (77 :> "kiriyuki") @@
    (80 :> "niwaka ame") @@ (81 :> "niwaka ame") @@
    (82 :> "hageshii niwaka ame") @@ (85 :> "niwaka yuki") @@
    (86 :> "hageshii niwaka yuki") @@ (95 :> "raiu") @@
    (96 :> "raiu to hyou") @@ (99 :> "hageshii raiu to hyou")

\* Mutant: the lookup without its default label.
GetWeatherDescriptionNoDefault(c) ==
    IF c \in DOMAIN weather_codes THEN weather_codes[c] ELSE ""

GetWeatherDescription(c) ==
    IF c \in DOMAIN weather_codes THEN weather_codes[c] ELSE "fumei"

----------------------------------------------------------------------------
\* create_webhook_payload.

Digits == <<"0", "1", "2", "3", "4", "5", "6", "7", "8", "9">>
Digit(d) == Digits[d + 1]

RECURSIVE IntStr(_)
IntStr(n) == IF n < 10 THEN Digit(n) ELSE IntStr(n \div 10) \o Digit(n % 10)

\* strftime("%H:%M"): two zero-padded digits each.
Pad2(n) == Digit(n \div 10) \o Digit(n % 10)
StrfTime(t) == Pad2(t.hour) \o ":" \o Pad2(t.minute)

\* f"{f.precipitation}": str() of a float with one decimal, or of None.
PrecipStr(p) ==
    IF p.type = "number"
    THEN IntStr(p.value \div 10) \o "." \o Digit(p.value % 10)
    ELSE "None"

\* The grave accent (U+0060) that opens and closes the Markdown code span of
\* line 154; a TLA+ string cannot hold the character itself.
GraveAccent == "[U+0060]"

\* Line 154 (kousuiryou: 降水量): the chunks of the f-string.
ForecastLine(f) ==
    <<GraveAccent, StrfTime(f.time), GraveAccent, " - ",
      GetWeatherDescription(f.weather_code),
      " (kousuiryou: ", PrecipStr(f.precipitation), "mm)\n">>

\* Lines 150-154: forecast_text after the loop over fs[i..].
RECURSIVE ForecastText(_, _, _)
ForecastText(fs, i, forecast_text) ==
    IF i > Len(fs) THEN forecast_text
    ELSE ForecastText(fs, i + 1, forecast_text \o ForecastLine(fs[i]))

\* Mutant: the field value without the placeholder.
FieldValueNoFallback(forecast_text) == forecast_text

\* Line 163: forecast_text or the placeholder (deeta nashi: データなし).
FieldValue(forecast_text) ==
    IF forecast_text # <<>> THEN forecast_text ELSE <<"deeta nashi">>

NoPayload == [embeds |-> <<>>]

\* Lines 156-178, literals in romaji (yohou: 予報, basho: 場所); the place
\* text and the timestamp do not depend on the forecasts.
CreateWebhookPayload(fs) ==
    [embeds |-> <<
        [title |-> "ame ga furisou desu",
         description |-> "mamonaku ame ga yosou saremasu.",
         color |-> 5793266,
         fields |-> <<
            [name |-> "yohou",
             value |-> FieldValue(ForecastText(fs, 1, <<>>)),
             inline |-> FALSE],
            [name |-> "basho",
             value |-> <<"ido: ", "LATITUDE", ", keido: ", "LONGITUDE",
                         "\n(Toukyouto Shinjukuku fukin)">>,
             inline |-> FALSE] >>,
         footer |-> [text |-> "Powered by Open-Meteo JMA API"],
         timestamp |-> "datetime.now().isoformat()"] >>]

----------------------------------------------------------------------------
\* send_discord_notification.

\* Mutant: the configuration guard removed.
NotConfiguredNever(url) == FALSE

\* Line 192: "if not webhook_url".
NotConfigured(url) == url = ""

\* Lines 192-204 against the outcome o of requests.post. requested:
\* requests.post was called; requests: what the call put on the wire; result:
\* the returned boolean. Every failure of the POST is a RequestException and
\* is caught.
SendDiscordNotification(url, fs, o) ==
    IF NotConfigured(url)
    THEN [requested |-> FALSE, payload |-> NoPayload, outcome |-> NoCall,
          requests |-> <<>>, result |-> FALSE]
    ELSE [requested |-> TRUE, payload |-> CreateWebhookPayload(fs), outcome |-> o,
          requests |-> WireRequests("requests.post", "POST", o),
          result |-> (o.kind = "response" /\ ~RaisesForStatus(o.status))]

----------------------------------------------------------------------------
\* check_and_notify.

\* Mutants of the comparison of line 223.
MeetsThresholdStrict(f, t) == f.precipitation.value > t
MeetsThresholdAlways(f, t) == TRUE

\* Line 223: f.precipitation >= RAIN_THRESHOLD.
MeetsThreshold(f, t) == f.precipitation.value >= t

\* The comparison raises TypeError for a precipitation that is no number.
Comparable(fs) == \A i \in 1..Len(fs) : fs[i].precipitation.type = "number"

RainFilter(fs, t) == SelectSeq(fs, LAMBDA f : MeetsThreshold(f, t))

\* Mutant: the return value follows the delivery.
CheckAndNotifyReturnDelivered(rain, delivered) ==
    IF rain # <<>> THEN delivered ELSE FALSE

\* Lines 225-239: the value returned once the filter has run.
CheckAndNotifyReturn(rain, delivered) ==
    IF rain # <<>> THEN TRUE ELSE FALSE

----------------------------------------------------------------------------
\* Inputs of the functions invoked directly.

DateTimes == {IsoTable[s] : s \in DOMAIN IsoTable}
RainForecasts ==
    {RainForecastOf(t, p, c) : t \in DateTimes, p \in {JNum(0), JNum(6)},
                               c \in CodeValues}
ForecastLists == SeqsUpTo(RainForecasts, MaxForecasts)
Codes == (0 - 1)..MaxCode

Entries == {"main", "fetch_rain_forecast", "send_discord_notification",
            "create_webhook_payload", "get_weather_description"}

Init ==
    /\ entry \in Entries
    /\ pc = entry
    /\ RAIN_THRESHOLD \in Thresholds
    /\ DISCORD_WEBHOOK_URL \in WebhookUrls
    /\ get = NoCall
    /\ forecasts = <<>>
    /\ rain_forecasts = <<>>
    /\ webhook_url \in (IF entry = "send_discord_notification" THEN WebhookUrls ELSE {""})
    /\ send_forecasts \in
          (IF entry \in {"send_discord_notification", "create_webhook_payload"}
           THEN ForecastLists ELSE {<<>>})
    /\ payload = NoPayload
    /\ post = NoCall
    /\ sendCalled = FALSE
    /\ sent = FALSE
    /\ ret = FALSE
    /\ exc = "none"
    /\ calls = <<>>
    /\ net = <<>>
    /\ code \in (IF entry = "get_weather_description" THEN Codes ELSE {0})
    /\ desc = ""
    /\ exit_code = 0

\* main(), lines 244-250, up to the call of check_and_notify.
Main ==
    /\ pc = "main"
    /\ pc' = "check_and_notify"
    /\ UNCHANGED <<entry, RAIN_THRESHOLD, DISCORD_WEBHOOK_URL, get, forecasts,
                   rain_forecasts, webhook_url, send_forecasts, payload, post,
                   sendCalled, sent, ret, exc, calls, net, code, desc, exit_code>>

\* Line 216 (inside check_and_notify) or a direct call: the whole of
\* fetch_rain_forecast, for one outcome of the GET.
Fetch ==
    /\ pc \in {"check_and_notify", "fetch_rain_forecast"}
    /\ \E o \in GetOutcomes :
        LET r == FetchRainForecast(o) IN
        /\ get' = o
        /\ calls' = Append(calls, "requests.get")
        /\ net' = net \o WireRequests("requests.get", "GET", o)
        /\ forecasts' = r.result
        /\ exc' = r.exc
        /\ pc' = IF r.exc # "none" THEN "raised"
                 ELSE IF entry = "main" THEN "fetched" ELSE "returned"
    /\ UNCHANGED <<entry, RAIN_THRESHOLD, DISCORD_WEBHOOK_URL, rain_forecasts,
                   webhook_url, send_forecasts, payload, post, sendCalled, sent,
                   ret, code, desc, exit_code>>

\* Lines 218-229 and the branch of line 230: stop on an empty fetch, filter,
\* and decide whether the notifier is called.
Filter ==
    /\ pc = "fetched"
    /\ IF forecasts = <<>>
       THEN /\ ret' = FALSE
            /\ pc' = "returned"
            /\ UNCHANGED <<rain_forecasts, exc>>
       ELSE IF ~Comparable(forecasts)
       THEN /\ exc' = "TypeError"
            /\ pc' = "raised"
            /\ UNCHANGED <<rain_forecasts, ret>>
       ELSE /\ rain_forecasts' = RainFilter(forecasts, RAIN_THRESHOLD)
            /\ IF rain_forecasts' # <<>> /\ DISCORD_WEBHOOK_URL # ""
               THEN pc' = "notify" /\ UNCHANGED ret
               ELSE /\ ret' = CheckAndNotifyReturn(rain_forecasts', FALSE)
                    /\ pc' = "returned"
            /\ UNCHANGED exc
    /\ UNCHANGED <<entry, RAIN_THRESHOLD, DISCORD_WEBHOOK_URL, get, forecasts,
                   webhook_url, send_forecasts, payload, post, sendCalled, sent,
                   calls, net, code, desc, exit_code>>

\* Lines 231 and 236: the notifier is called with the configured URL and the
\* filtered list, and check_and_notify returns.
Notify ==
    /\ pc = "notify"
    /\ \E o \in PostOutcomes :
        LET r == SendDiscordNotification(DISCORD_WEBHOOK_URL, rain_forecasts, o) IN
        /\ webhook_url' = DISCORD_WEBHOOK_URL
        /\ send_forecasts' = rain_forecasts
        /\ sendCalled' = TRUE
        /\ payload' = r.payload
        /\ post' = r.outcome
        /\ calls' = IF r.requested THEN Append(calls, "requests.post") ELSE calls
        /\ net' = net \o r.requests
        /\ sent' = r.result
        /\ ret' = CheckAndNotifyReturn(rain_forecasts, r.result)
    /\ pc' = "returned"
    /\ UNCHANGED <<entry, RAIN_THRESHOLD, DISCORD_WEBHOOK_URL, get, forecasts,
                   rain_forecasts, exc, code, desc, exit_code>>

\* send_discord_notification called directly with any URL and list.
Send ==
    /\ pc = "send_discord_notification"
    /\ \E o \in PostOutcomes :
        LET r == SendDiscordNotification(webhook_url, send_forecasts, o) IN
        /\ sendCalled' = TRUE
        /\ payload' = r.payload
        /\ post' = r.outcome
        /\ calls' = IF r.requested THEN Append(calls, "requests.post") ELSE calls
        /\ net' = net \o r.requests
        /\ sent' = r.result
    /\ pc' = "returned"
    /\ UNCHANGED <<entry, RAIN_THRESHOLD, DISCORD_WEBHOOK_URL, get, forecasts,
                   rain_forecasts, webhook_url, send_forecasts, ret, exc, code,
                   desc, exit_code>>

\* create_webhook_payload called directly with any list.
Format ==
    /\ pc = "create_webhook_payload"
    /\ payload' = CreateWebhookPayload(send_forecasts)
    /\ pc' = "returned"
    /\ UNCHANGED <<entry, RAIN_THRESHOLD, DISCORD_WEBHOOK_URL, get, forecasts,
                   rain_forecasts, webhook_url, send_forecasts, post, sendCalled,
                   sent, ret, exc, calls, net, code, desc, exit_code>>

\* get_weather_description called directly with any code.
Describe ==
    /\ pc = "get_weather_description"
    /\ desc' = GetWeatherDescription(code)
    /\ pc' = "returned"
    /\ UNCHANGED <<entry, RAIN_THRESHOLD, DISCORD_WEBHOOK_URL, get, forecasts,
                   rain_forecasts, webhook_url, send_forecasts, payload, post,
                   sendCalled, sent, ret, exc, calls, net, code, exit_code>>

\* Lines 253-254: main() returns and the interpreter exits with status 0, or
\* an exception reaches the top level and it exits with status 1.
Exit ==
    /\ entry = "main"
    /\ pc \in {"returned", "raised"}
    /\ exit_code' = IF pc = "raised" THEN 1 ELSE 0
    /\ pc' = "exit"
    /\ UNCHANGED <<entry, RAIN_THRESHOLD, DISCORD_WEBHOOK_URL, get, forecasts,
                   rain_forecasts, webhook_url, send_forecasts, payload, post,
                   sendCalled, sent, ret, exc, calls, net, code, desc>>

Next == Main \/ Fetch \/ Filter \/ Notify \/ Send \/ Format \/ Describe \/ Exit

Spec == Init /\ [][Next]_vars

----------------------------------------------------------------------------
\* Vocabulary of the properties.

Posts == {i \in DOMAIN net : net[i].method = "POST"}
Gets == {i \in DOMAIN net : net[i].method = "GET"}
PostCalls == {i \in DOMAIN calls : calls[i] = "requests.post"}
GetCalls == {i \in DOMAIN calls : calls[i] = "requests.get"}

\* Some fetched point carries a number that is at least the threshold.
RainPresent ==
    \E k \in DOMAIN forecasts :
        /\ forecasts[k].precipitation.type = "number"
        /\ forecasts[k].precipitation.value >= RAIN_THRESHOLD

Is2xx(o) == o.kind = "response" /\ 200 <= o.status /\ o.status < 300

\* The indices of the fetched points that reach the threshold, and the k-th
\* smallest of them.
RainIndices ==
    {i \in DOMAIN forecasts : forecasts[i].precipitation.value >= RAIN_THRESHOLD}
KthRainIndex(k) ==
    CHOOSE i \in RainIndices : Cardinality({j \in RainIndices : j <= i}) = k

KnownWmoCodes ==
    {0, 1, 2, 3, 45, 48, 51, 53, 55, 61, 63, 65, 66, 67, 71, 73, 75, 77,
     80, 81, 82, 85, 86, 95, 96, 99}

\* The value of the forecast field of the payload.
ForecastField == payload.embeds[1].fields[1].value

----------------------------------------------------------------------------
\* C1: in a run of check_and_notify at most one webhook POST is made (one
\* call of requests.post, line 198), only after the forecast GET (the call of
\* requests.get, line 70) has completed, and only when the fetch returned a
\* non-empty sequence with a point at or above RAIN_THRESHOLD and
\* DISCORD_WEBHOOK_URL is non-empty. The two calls are the network calls of
\* the program; the hops the library adds when it follows a redirect belong
\* to the call that started them, and no request of the POST call precedes a
\* request of the GET call.
C1_PostOnlyForRainAndUrl ==
    entry = "main" =>
        /\ Cardinality(PostCalls) <= 1
        /\ Cardinality(GetCalls) <= 1
        /\ \A i \in PostCalls : get # NoCall /\ \E j \in GetCalls : j < i
        /\ \A i \in Posts : net[i].call = "requests.post"
        /\ \A i \in DOMAIN net : net[i].call = "requests.post" =>
              /\ PostCalls # {}
              /\ \A j \in DOMAIN net : net[j].call = "requests.get" => j < i
        /\ (PostCalls # {} \/ Posts # {}) =>
              /\ forecasts # <<>>
              /\ RainPresent
              /\ DISCORD_WEBHOOK_URL # ""

C1_Witness ==
    /\ entry = "main"
    /\ calls = <<"requests.get", "requests.post">>
    /\ post.kind = "response"
    /\ post.redirects = <<>>
    /\ Len(forecasts) = 2
    /\ Len(rain_forecasts) = 1

\* C2: when check_and_notify returns, it returns true exactly when a fetched
\* point is at or above RAIN_THRESHOLD, whatever the webhook URL and the
\* outcome of the POST; and it does return whenever every fetched
\* precipitation is a number (a null precipitation makes the comparison of
\* line 223 raise TypeError, the case of C5).
C2_ReturnsRainDetected ==
    entry = "main" =>
        /\ (pc \in {"returned", "exit"} /\ exc = "none") => (ret <=> RainPresent)
        /\ exc = "TypeError" => ~Comparable(forecasts)

C2_Witness ==
    /\ entry = "main"
    /\ pc = "returned"
    /\ ret = TRUE
    /\ sendCalled
    /\ post.kind = "response"
    /\ post.status = 500
    /\ sent = FALSE

\* C3 (as claimed): send_discord_notification returns true only on a 2xx
\* response and never raises.
C3_TrueOnlyOn2xx ==
    sendCalled => ((sent => Is2xx(post)) /\ pc # "raised")

\* C4 (as claimed): a transport failure, timeout or non-2xx status of the GET
\* makes fetch_rain_forecast return an empty sequence without raising.
C4_EmptyOnFailedGet ==
    (get # NoCall /\ ~Is2xx(get)) =>
        (forecasts = <<>> /\ exc \notin {"ValueError", "AttributeError"})

\* C5 (as claimed): no exception escapes main and the process exits normally.
C5_AlwaysCompletesNormally ==
    entry = "main" => (pc # "raised" /\ exc = "none" /\ exit_code = 0)

\* C6: send_discord_notification called with an empty URL issues no request,
\* builds no payload and returns false.
C6_EmptyUrlShortCircuits ==
    (sendCalled /\ webhook_url = "") =>
        /\ Posts = {}
        /\ post = NoCall
        /\ payload = NoPayload
        /\ sent = FALSE

C6_Witness ==
    /\ entry = "send_discord_notification"
    /\ pc = "returned"
    /\ webhook_url = ""
    /\ send_forecasts # <<>>
    /\ sent = FALSE

\* C7: the list check_and_notify computes and hands to the notifier is the
\* subsequence of the fetched points with precipitation >= RAIN_THRESHOLD, in
\* the original order, a point equal to the threshold included.
C7_FilterIsInclusiveSubsequence ==
    LET Expected == [k \in 1..Cardinality(RainIndices) |-> forecasts[KthRainIndex(k)]]
    IN  /\ (entry = "main" /\ pc = "notify") => rain_forecasts = Expected
        /\ (entry = "main" /\ sendCalled) =>
              (rain_forecasts = Expected /\ send_forecasts = Expected)

C7_Witness ==
    /\ entry = "main"
    /\ sendCalled
    /\ Len(forecasts) = 2
    /\ forecasts[1].precipitation.value < RAIN_THRESHOLD
    /\ forecasts[2].precipitation.value = RAIN_THRESHOLD
    /\ send_forecasts = <<forecasts[2]>>

\* C8: on a successful response whose time entries parse, fetch_rain_forecast
\* returns one point per entry of the time array, in order, the i-th with
\* precipitation[i] and weather_code[i], or 0.0 and 0 where those arrays are
\* too short; it does not raise.
C8_OnePointPerTimeEntry ==
    LET b == get.body IN
    (/\ get.kind = "response"
     /\ ~RaisesForStatus(get.status)
     /\ b.kind = "hourly"
     /\ \A i \in DOMAIN b.time : IsIsoFormat(b.time[i])) =>
        /\ exc \notin {"ValueError", "AttributeError"}
        /\ Len(forecasts) = Len(b.time)
        /\ \A i \in DOMAIN b.time :
              /\ forecasts[i].time = FromIsoFormat(b.time[i])
              /\ forecasts[i].precipitation =
                    IF i \in DOMAIN b.precipitation THEN b.precipitation[i] ELSE JNum(0)
              /\ forecasts[i].weather_code =
                    IF i \in DOMAIN b.weather_code THEN b.weather_code[i] ELSE 0

C8_Witness ==
    /\ entry = "fetch_rain_forecast"
    /\ pc = "returned"
    /\ get.kind = "response"
    /\ get.status = 200
    /\ Len(get.body.time) = 2
    /\ Len(get.body.precipitation) = 1
    /\ get.body.weather_code = <<>>
    /\ Len(forecasts) = 2
    /\ forecasts[2].precipitation = JNum(0)
    /\ forecasts[2].weather_code = 0

\* C9: the payload has one embed whose forecast field value is never empty:
\* the placeholder for an empty list, otherwise one line per point, in order,
\* with the point's HH:MM time, its weather label and its precipitation
\* followed by "mm".
C9_ForecastFieldNeverEmpty ==
    payload # NoPayload =>
        /\ Len(payload.embeds) = 1
        /\ ForecastField # <<>>
        /\ send_forecasts = <<>> => ForecastField = <<"deeta nashi">>
        /\ send_forecasts # <<>> =>
              /\ Len(ForecastField) = 8 * Len(send_forecasts)
              /\ \A i \in DOMAIN send_forecasts :
                    LET f == send_forecasts[i]
                        line == SubSeq(ForecastField, 8 * (i - 1) + 1, 8 * i)
                    IN  /\ line[2] = Pad2(f.time.hour) \o ":" \o Pad2(f.time.minute)
                        /\ line[5] = GetWeatherDescription(f.weather_code)
                        /\ line[7] = PrecipStr(f.precipitation)
                        /\ line[8] = "mm)\n"

C9_Witness ==
    /\ entry = "create_webhook_payload"
    /\ pc = "returned"
    /\ send_forecasts = <<>>
    /\ ForecastField = <<"deeta nashi">>

\* C10: get_weather_description returns a non-empty string for every code,
\* and the unknown label for every code outside the table of WMO codes.
C10_DescriptionIsTotal ==
    (entry = "get_weather_description" /\ pc = "returned") =>
        /\ desc # ""
        /\ code \notin KnownWmoCodes => desc = "fumei"

C10_Witness ==
    /\ entry = "get_weather_description"
    /\ pc = "returned"
    /\ code = 4
    /\ desc = "fumei"

====
